---- MODULE Spec2Model ----
(***************************************************************************)
(* Model of app/server_backup.py: the retrieval-and-answer pipeline        *)
(* (_keywords_ar, retrieve_chunks, build_answer, ask).                     *)
(*                                                                         *)
(* Text is a sequence of one-character strings.  Arabic characters are     *)
(* written in Buckwalter transliteration (A = alef, b = ba, p = ta         *)
(* marbuta, ...), with three additions for Arabic punctuation:             *)
(*     "Q" = U+061F ARABIC QUESTION MARK,  "," = U+060C ARABIC COMMA,      *)
(*     "-" = U+06D4 ARABIC FULL STOP.                                      *)
(* ".", "!", "?" are the ASCII characters, " " and "\n" are whitespace,    *)
(* "1" is an ASCII digit.                                                  *)
(* Similarities are in hundredths: 72 is 0.72.                             *)
(***************************************************************************)
EXTENDS Integers, Sequences, FiniteSets, TLC

VARIABLES
    chunks,      \* the corpus, loaded once
    pc,          \* "idle" | "asked" | "keywords" | "retrieved" | "answered" | "error"
    question,    \* the question of the current call
    top_k,       \* retrieve_chunks parameter
    search_k,    \* retrieve_chunks parameter
    kws,         \* _keywords_ar(question)
    hits,        \* index.search(q_emb, search_k): entries [id, score]
    cands,       \* zip(candidates, cand_scores), each entry [ch, score]
    ranked,      \* the sorted candidate list
    retrieved,   \* chunk texts returned by retrieve_chunks
    scores,      \* similarities returned by retrieve_chunks
    ans0,        \* build_answer: ans after the splitter loop
    answer,      \* build_answer: returned text
    best_score,  \* build_answer: returned score
    branch,      \* build_answer: "none" (not run) | "refusal" | "extract" | "IndexError"
    index,       \* the loaded index, as what it returns for each query
                 \* (concurrent server only; elsewhere the result is an input)
    inflight     \* concurrent server: the locals of each worker thread's call

vars == <<chunks, pc, question, top_k, search_k, kws, hits, cands, ranked,
          retrieved, scores, ans0, answer, best_score, branch, index, inflight>>

(* the variables of the one-call-at-a-time specifications *)
callvars == <<pc, question, top_k, search_k, kws, hits, cands, ranked,
              retrieved, scores, ans0, answer, best_score, branch>>

----------------------------------------------------------------------------
(* Program constants *)

TOP_K == 5
SEARCH_K == 80
DONT_KNOW_THRESHOLD == 72
MIN_ANSWER_LEN == 18
FALLBACK_LEN == 220

(* The score faiss puts in the slots it cannot fill (label -1): -FLT_MAX for
   an inner-product index, here any value below every cosine similarity. *)
PAD_SCORE == -100000

----------------------------------------------------------------------------
(* Characters *)

ArabicLetters ==
    {"'", "|", ">", "&", "<", "}", "A", "b", "p", "t", "v", "j", "H", "x",
     "d", "*", "r", "z", "s", "$", "S", "D", "T", "Z", "E", "g", "f", "q",
     "k", "l", "m", "n", "h", "w", "Y", "y", "F"}

(* U+0600..U+06FF: the letters and the Arabic punctuation *)
ArabicBlock == ArabicLetters \cup {"Q", ",", "-"}

(* \w *)
WordChars == ArabicLetters \cup {"1"}

(* \s, and what str.strip() / str.split() treat as whitespace *)
Whitespace == {" ", "\n"}

----------------------------------------------------------------------------
(* Sequence helpers *)

Min(S) == CHOOSE x \in S : \A y \in S : x <= y

Range(s) == {s[i] : i \in 1..Len(s)}

Rep(c, n) == [i \in 1..n |-> c]

Reverse(s) == [i \in 1..Len(s) |-> s[Len(s) + 1 - i]]

(* s[:n] *)
Take(s, n) == SubSeq(s, 1, IF n < Len(s) THEN n ELSE Len(s))

(* Index of the first / last character of s that is in C (when keep) or
   not in C (when not keep); 0 when there is none *)
FirstAt(s, C, keep) ==
    IF \E i \in 1..Len(s) : (s[i] \in C) = keep
    THEN CHOOSE i \in 1..Len(s) :
            /\ (s[i] \in C) = keep
            /\ \A j \in 1..(i - 1) : (s[j] \in C) # keep
    ELSE 0

LastAt(s, C, keep) ==
    IF \E i \in 1..Len(s) : (s[i] \in C) = keep
    THEN CHOOSE i \in 1..Len(s) :
            /\ (s[i] \in C) = keep
            /\ \A j \in (i + 1)..Len(s) : (s[j] \in C) # keep
    ELSE 0

(* str.strip() *)
Strip(s) ==
    IF FirstAt(s, Whitespace, FALSE) = 0 THEN <<>>
    ELSE SubSeq(s, FirstAt(s, Whitespace, FALSE), LastAt(s, Whitespace, FALSE))

(* s in text, for a one-character s *)
HasChar(text, c) == \E i \in 1..Len(text) : text[i] = c

(* text.split(c)[-1] where the code takes [0] *)
SplitHead_last(text, c) ==
    IF HasChar(text, c) THEN SubSeq(text, LastAt(text, {c}, TRUE) + 1, Len(text))
    ELSE text

(* text.split(c)[0] *)
SplitHead(text, c) ==
    IF HasChar(text, c) THEN SubSeq(text, 1, FirstAt(text, {c}, TRUE) - 1)
    ELSE text

(* w in ch *)
IsSubstring(w, ch) ==
    \E i \in 0..(Len(ch) - Len(w)) : \A j \in 1..Len(w) : ch[i + j] = w[j]

----------------------------------------------------------------------------
(* build_answer *)

REFUSAL ==
    <<"l","A"," ",">","E","l","m",","," ","l","y","s"," ","l","d","y"," ",
      "m","E","l","w","m","A","t"," ","k","A","f","y","p"," ","E","n"," ",
      "h","*","A"," ","A","l","s","&","A","l"," ","H","A","l","y","F","A",
      ","," ","l","k","n","n","y"," ","f","y"," ","m","r","H","l","p"," ",
      "A","l","t","T","w","y","r",".">>

splitters == <<"-", ".", "!", "Q", "\n">>

(* the largest similarity where the code takes the first *)
BestScore_max(sc) ==
    IF sc # <<>> THEN CHOOSE x \in Range(sc) : \A y \in Range(sc) : y <= x ELSE 0

(* 1.0 where the code takes 0.0 for an empty list *)
BestScore_one(sc) == IF sc # <<>> THEN sc[1] ELSE 100

BestScore(sc) == IF sc # <<>> THEN sc[1] ELSE 0

(* <= where the code compares with < *)
BelowThreshold_le(best) == best <= DONT_KNOW_THRESHOLD

BelowThreshold(best) == best < DONT_KNOW_THRESHOLD

(* splitting at the delimiter that occurs earliest by position *)
SplitLoop_earliest(ans, i) ==
    LET at == FirstAt(ans, Range(splitters), TRUE)
    IN  IF at = 0 THEN ans ELSE Strip(SubSeq(ans, 1, at - 1))

(* for s in splitters: if s in ans: ans = ans.split(s)[0].strip(); break *)
RECURSIVE SplitLoop(_, _)
SplitLoop(ans, i) ==
    IF i > Len(splitters) THEN ans
    ELSE IF HasChar(ans, splitters[i]) THEN Strip(SplitHead(ans, splitters[i]))
    ELSE SplitLoop(ans, i + 1)

(* <= 18 where the code compares with < 18 *)
MinLengthFallback_le(ans, text) ==
    IF Len(ans) <= MIN_ANSWER_LEN THEN Strip(Take(text, FALLBACK_LEN)) ELSE ans

(* truncating whatever the length of ans *)
MinLengthFallback_always(ans, text) == Strip(Take(text, FALLBACK_LEN))

(* if len(ans) < 18: ans = text[:220].strip() *)
MinLengthFallback(ans, text) ==
    IF Len(ans) < MIN_ANSWER_LEN THEN Strip(Take(text, FALLBACK_LEN)) ELSE ans

build_answer(q, retr, sc) ==
    LET best == BestScore(sc) IN
    IF BelowThreshold(best)
    THEN [answer |-> REFUSAL, best_score |-> best, branch |-> "refusal", ans0 |-> <<>>]
    ELSE IF retr = <<>>
    THEN [answer |-> <<>>, best_score |-> best, branch |-> "IndexError", ans0 |-> <<>>]
    ELSE LET text == Strip(retr[1])
             ans  == SplitLoop(text, 1)
         IN  [answer |-> MinLengthFallback(ans, text), best_score |-> best,
              branch |-> "extract", ans0 |-> ans]

(* a call of build_answer on the lists held in the state *)
Build ==
    /\ pc = "retrieved"
    /\ \E r \in {build_answer(question, retrieved, scores)} :
         /\ answer' = r.answer
         /\ best_score' = r.best_score
         /\ branch' = r.branch
         /\ ans0' = r.ans0
         /\ pc' = IF r.branch = "IndexError" THEN "error" ELSE "answered"
    /\ UNCHANGED <<chunks, question, top_k, search_k, kws, hits, cands, ranked,
                   retrieved, scores, index, inflight>>

----------------------------------------------------------------------------
(* Inputs of build_answer: texts made of runs of letters joined by
   delimiters or spaces, between optional outer whitespace. *)

RunLens == {0, 3, 17, 18, 300}
Joints == {"-", ".", "!", "Q", "\n", " "}
Outer == {<<>>, <<"\n", " ">>}

AnswerTexts ==
    {lead \o Rep("b", n1) \o <<j1>> \o Rep("t", n2) \o <<j2>> \o Rep("v", n3) \o lead :
        lead \in Outer, n1 \in RunLens, j1 \in Joints, n2 \in {0, 3, 18, 215},
        j2 \in Joints, n3 \in {0, 3}}
    \cup {lead \o Rep("b", n) \o lead : lead \in Outer, n \in RunLens}
    \cup {lead \o Rep("b", 149) \o <<" ">> \o Rep("t", 150) \o lead : lead \in Outer}

OtherText == Rep("x", 20) \o <<".">>

AnswerScores == {50, 71, 72, 90}

InitAnswer ==
    /\ chunks = <<>>
    /\ pc = "retrieved"
    /\ question = <<>>
    /\ top_k = TOP_K
    /\ search_k = SEARCH_K
    /\ kws = <<>>
    /\ hits = <<>>
    /\ cands = <<>>
    /\ ranked = <<>>
    /\ \/ \E t \in AnswerTexts, s \in AnswerScores :
            \/ retrieved = <<t>> /\ scores = <<s>>
            \/ retrieved = <<t, OtherText>> /\ scores = <<s, 90>>
       \/ retrieved = <<>> /\ scores = <<>>
    /\ ans0 = <<>>
    /\ answer = <<>>
    /\ best_score = 0
    /\ branch = "none"
    /\ index = <<>>
    /\ inflight = <<>>

NextAnswer == Build

SpecAnswer == InitAnswer /\ [][NextAnswer]_vars

----------------------------------------------------------------------------
(* _keywords_ar *)

AR_STOP ==
    { <<"m","A">>, <<"h","y">>, <<"h","l">>, <<">","y","n">>, <<"m","n">>,
      <<"f","y">>, <<"E","l","Y">>, <<"<","l","Y">>, <<"E","n">>,
      <<"h","*","A">>, <<"h","*","h">>, <<"*","l","k">>,
      <<"t","k","w","n">>, <<"y","k","w","n">>, <<"k","m">>,
      <<"m","t","Y">>, <<"l","m","A","*","A">>, <<"k","y","f">>,
      <<"m","A","h","w">>, <<"m","A","h","y">>, <<"h","w">>, <<"Q">> }

MIN_WORD_LEN == 3

(* re.sub(r"[^\w\s\u0600-\u06FF]", " ", text) *)
ReSub(text) ==
    [i \in 1..Len(text) |->
        IF text[i] \in WordChars \cup Whitespace \cup ArabicBlock
        THEN text[i] ELSE " "]

(* text.split() *)
RECURSIVE SplitWs(_)
SplitWs(s) ==
    LET a == FirstAt(s, Whitespace, FALSE) IN
    IF a = 0 THEN <<>>
    ELSE LET rest == SubSeq(s, a, Len(s))
             e    == FirstAt(rest, Whitespace, TRUE)
         IN  IF e = 0 THEN <<rest>>
             ELSE <<SubSeq(rest, 1, e - 1)>> \o SplitWs(SubSeq(rest, e, Len(rest)))

(* [w.strip() for w in ... if len(w.strip()) >= 3] *)
RECURSIVE LongWords(_)
LongWords(ws) ==
    IF ws = <<>> THEN <<>>
    ELSE IF Len(Strip(Head(ws))) >= MIN_WORD_LEN
         THEN <<Strip(Head(ws))>> \o LongWords(Tail(ws))
         ELSE LongWords(Tail(ws))

(* [w for w in words if w not in AR_STOP] *)
RECURSIVE DropStop(_)
DropStop(ws) ==
    IF ws = <<>> THEN <<>>
    ELSE IF Head(ws) \notin AR_STOP THEN <<Head(ws)>> \o DropStop(Tail(ws))
    ELSE DropStop(Tail(ws))

(* a de-duplication that keeps each word at its last occurrence *)
RECURSIVE FromKeys_last(_)
FromKeys_last(ws) ==
    IF ws = <<>> THEN <<>>
    ELSE IF Head(ws) \in Range(Tail(ws)) THEN FromKeys_last(Tail(ws))
    ELSE <<Head(ws)>> \o FromKeys_last(Tail(ws))

(* list(dict.fromkeys(words)) *)
RECURSIVE FromKeys(_)
FromKeys(ws) ==
    IF ws = <<>> THEN <<>>
    ELSE LET init == FromKeys(SubSeq(ws, 1, Len(ws) - 1))
             last == ws[Len(ws)]
         IN  IF last \in Range(init) THEN init ELSE Append(init, last)

_keywords_ar(text) == FromKeys(DropStop(LongWords(SplitWs(ReSub(text)))))

(* sum(1 for w in kws if w in ch) *)
kw_score(kw, ch) == Cardinality({i \in 1..Len(kw) : IsSubstring(kw[i], ch)})

(* a call of _keywords_ar on the question held in the state *)
Keywords ==
    /\ pc = "asked"
    /\ kws' = _keywords_ar(question)
    /\ pc' = "keywords"
    /\ UNCHANGED <<chunks, question, top_k, search_k, hits, cands, ranked,
                   retrieved, scores, ans0, answer, best_score, branch,
                   index, inflight>>

----------------------------------------------------------------------------
(* Inputs of _keywords_ar: up to MaxWords words, each followed by a joint *)

MaxWords == 3

W_mA == <<"m","A">>
W_hy == <<"h","y">>
W_ayn == <<">","y","n">>
W_EASmp == <<"E","A","S","m","p">>
W_frnsA == <<"f","r","n","s","A">>
W_bArys == <<"b","A","r","y","s">>

QWords == {W_ayn, W_frnsA, W_bArys}
QJoints == {<<" ">>, <<"?">>, <<"Q", " ">>, <<"\n">> \o W_hy \o <<" ">>}

RECURSIVE Flatten(_)
Flatten(ss) == IF ss = <<>> THEN <<>> ELSE Head(ss) \o Flatten(Tail(ss))

(* "mA hy EASmp frnsAQ": the question of scenario A *)
ScenarioA_Question ==
    W_mA \o <<" ">> \o W_hy \o <<" ">> \o W_EASmp \o <<" ">> \o W_frnsA \o <<"Q">>

(* "EASmp frnsA hy bArys.": the chunk of scenario A *)
ScenarioA_Chunk ==
    W_EASmp \o <<" ">> \o W_frnsA \o <<" ">> \o W_hy \o <<" ">> \o W_bArys \o <<".">>

KwQuestions ==
    {ScenarioA_Question}
    \cup UNION {{Flatten([i \in 1..n |-> f[i][1] \o f[i][2]]) :
                    f \in [1..n -> QWords \X QJoints]} : n \in 0..MaxWords}

InitKw ==
    /\ chunks = <<>>
    /\ pc = "asked"
    /\ question \in KwQuestions
    /\ top_k = TOP_K
    /\ search_k = SEARCH_K
    /\ kws = <<>>
    /\ hits = <<>>
    /\ cands = <<>>
    /\ ranked = <<>>
    /\ retrieved = <<>>
    /\ scores = <<>>
    /\ ans0 = <<>>
    /\ answer = <<>>
    /\ best_score = 0
    /\ branch = "none"
    /\ index = <<>>
    /\ inflight = <<>>

NextKw == Keywords

SpecKw == InitKw /\ [][NextKw]_vars

----------------------------------------------------------------------------
(* retrieve_chunks *)

(* What index.search(q_emb, k) returns over a corpus of n vectors whose
   similarities to the query are sim[0..n-1], listed in the order `order`:
   the min(n, k) nearest by descending similarity, then label -1 with the
   pad score in every slot it cannot fill. *)
IndexSearch(sim, order, k) ==
    [i \in 1..k |->
        IF i <= Len(order) THEN [id |-> order[i], score |-> sim[order[i]]]
        ELSE [id |-> -1, score |-> PAD_SCORE]]

(* list[i] of Python: a negative index counts from the end *)
InRange(list, i) == -Len(list) <= i /\ i < Len(list)

PyIndex(list, i) == IF i >= 0 THEN list[i + 1] ELSE list[Len(list) + i + 1]

(* tuple comparison of the sort keys (kw_score, similarity) *)
KeyLess(a, b) == a[1] < b[1] \/ (a[1] = b[1] /\ a[2] < b[2])

(* a stable ascending sort of entries [key, item]: key by key from the
   smallest, the entries of one key in the order they have in l *)
RECURSIVE SortAscFrom(_, _)
SortAscFrom(l, keys) ==
    IF keys = {} THEN <<>>
    ELSE LET least == CHOOSE k \in keys : \A k2 \in keys : ~KeyLess(k2, k)
         IN  SelectSeq(l, LAMBDA e : e.key = least) \o SortAscFrom(l, keys \ {least})

SortAsc(l) == SortAscFrom(l, {l[i].key : i \in 1..Len(l)})

(* sorted(..., key=..., reverse=True) with ties ending up in reversed order *)
Sorted_unstable(l, kw) ==
    LET keyed == SubSeq([i \in 1..Len(l) |->
                    [key |-> <<kw_score(kw, l[i].ch), l[i].score>>, item |-> l[i]]],
                        1, Len(l))
        out   == Reverse(SortAsc(keyed))
    IN  [i \in 1..Len(l) |-> out[i].item]

(* sorted(..., key=...) without reverse=True *)
Sorted_ascending(l, kw) ==
    LET keyed == SubSeq([i \in 1..Len(l) |->
                    [key |-> <<kw_score(kw, l[i].ch), l[i].score>>, item |-> l[i]]],
                        1, Len(l))
        out   == SortAsc(keyed)
    IN  [i \in 1..Len(l) |-> out[i].item]

(* sorted(zip(candidates, cand_scores), key=lambda x: (kw_score(x[0]), x[1]),
   reverse=True): the keys are computed once, the list is reversed, sorted
   stably ascending and reversed again. *)
Sorted(l, kw) ==
    LET keyed == SubSeq([i \in 1..Len(l) |->
                    [key |-> <<kw_score(kw, l[i].ch), l[i].score>>, item |-> l[i]]],
                        1, Len(l))
        out   == Reverse(SortAsc(SubSeq(Reverse(keyed), 1, Len(l))))
    IN  [i \in 1..Len(l) |-> out[i].item]

(* retrieve_chunks(question, top_k, search_k), given what index.search
   returned for the encoded question *)
retrieve_chunks(q, k, sk, h) ==
    IF \E i \in 1..Len(h) : ~InRange(chunks, h[i].id)
    THEN [error |-> TRUE, kws |-> <<>>, cands |-> <<>>, ranked |-> <<>>,
          retrieved |-> <<>>, scores |-> <<>>]
    ELSE LET cs == [i \in 1..Len(h) |->
                       [ch |-> PyIndex(chunks, h[i].id), score |-> h[i].score]]
             kw == _keywords_ar(q)
             rk == Sorted(cs, kw)
             best == Take(rk, k)
         IN  [error |-> FALSE, kws |-> kw, cands |-> cs, ranked |-> rk,
              retrieved |-> [i \in 1..Len(best) |-> best[i].ch],
              scores |-> [i \in 1..Len(best) |-> best[i].score]]

----------------------------------------------------------------------------
(* Inputs of the pipeline *)

MaxCorpus == 2
MaxTopK == 2
MaxSearchK == 2

(* "bArys mdynp kbyrp jdA Q wAsEp": one keyword of scenario A, a question
   mark before a lower-priority position *)
Chunk_Paris ==
    W_bArys \o <<" ","m","d","y","n","p"," ","k","b","y","r","p"," ",
                 "j","d","A"," ","Q"," ","w","A","s","E","p">>

(* "lA": shorter than any keyword *)
Chunk_Short == <<"l","A">>

PipeTexts == {ScenarioA_Chunk, Chunk_Paris, Chunk_Short}

Corpora == UNION {[1..n -> PipeTexts] : n \in 0..MaxCorpus}

PipeQuestions ==
    { ScenarioA_Question,
      W_EASmp \o <<" ">> \o W_frnsA,
      <<" ">> \o W_bArys \o <<" ">> \o W_bArys \o <<"\n">>,
      <<>> }

Sims == {50, 80}

(* the orders in which an index may list n vectors of similarities sim *)
Orders(n, sim) ==
    {o \in [1..n -> 0..(n - 1)] :
        /\ \A i, j \in 1..n : i # j => o[i] # o[j]
        /\ \A i \in 1..(n - 1) : sim[o[i]] >= sim[o[i + 1]]}

(* what index.search may return for k results over the loaded corpus *)
SearchResults(k) ==
    LET n == Len(chunks) IN
    UNION {{IndexSearch(sim, SubSeq(o, 1, IF k < n THEN k ELSE n), k) : o \in Orders(n, sim)} :
              sim \in [0..(n - 1) -> Sims]}

----------------------------------------------------------------------------
(* The pipeline *)

Init ==
    /\ chunks \in Corpora
    /\ pc = "idle"
    /\ question = <<>>
    /\ top_k = TOP_K
    /\ search_k = SEARCH_K
    /\ kws = <<>>
    /\ hits = <<>>
    /\ cands = <<>>
    /\ ranked = <<>>
    /\ retrieved = <<>>
    /\ scores = <<>>
    /\ ans0 = <<>>
    /\ answer = <<>>
    /\ best_score = 0
    /\ branch = "none"
    /\ index = <<>>
    /\ inflight = <<>>

(* a call retrieve_chunks(question, top_k, search_k) *)
Retrieve(q, k, sk, h) ==
    /\ pc = "idle"
    /\ \E r \in {retrieve_chunks(q, k, sk, h)} :
         /\ question' = q
         /\ top_k' = k
         /\ search_k' = sk
         /\ hits' = h
         /\ kws' = r.kws
         /\ cands' = r.cands
         /\ ranked' = r.ranked
         /\ retrieved' = r.retrieved
         /\ scores' = r.scores
         /\ pc' = IF r.error THEN "error" ELSE "retrieved"
         /\ branch' = "none"
    /\ UNCHANGED <<chunks, ans0, answer, best_score, index, inflight>>

(* POST /ask *)
Ask(req, h) ==
    /\ pc = "idle"
    /\ \E q \in {Strip(req)} :
       \E r \in {retrieve_chunks(q, TOP_K, SEARCH_K, h)} :
       \E b \in {build_answer(q, r.retrieved, r.scores)} :
           /\ question' = q
           /\ top_k' = TOP_K
           /\ search_k' = SEARCH_K
           /\ hits' = h
           /\ kws' = r.kws
           /\ cands' = r.cands
           /\ ranked' = r.ranked
           /\ retrieved' = r.retrieved
           /\ scores' = r.scores
           /\ IF r.error
              THEN /\ pc' = "error"
                   /\ UNCHANGED <<ans0, answer, best_score, branch>>
              ELSE /\ pc' = IF b.branch = "IndexError" THEN "error" ELSE "answered"
                   /\ branch' = b.branch
                   /\ ans0' = b.ans0
                   /\ answer' = b.answer
                   /\ best_score' = b.best_score
    /\ UNCHANGED <<chunks, index, inflight>>

(* the response (or the exception) has left; nothing of the request stays *)
Return ==
    /\ pc \in {"answered", "error"}
    /\ pc' = "idle"
    /\ question' = <<>>
    /\ top_k' = TOP_K
    /\ search_k' = SEARCH_K
    /\ kws' = <<>>
    /\ hits' = <<>>
    /\ cands' = <<>>
    /\ ranked' = <<>>
    /\ retrieved' = <<>>
    /\ scores' = <<>>
    /\ ans0' = <<>>
    /\ answer' = <<>>
    /\ best_score' = 0
    /\ branch' = "none"
    /\ UNCHANGED <<chunks, index, inflight>>

Next ==
    \/ /\ pc = "idle"
       /\ \E h \in SearchResults(SEARCH_K) : \E req \in PipeQuestions : Ask(req, h)
    \/ /\ pc = "idle"
       /\ \E sk \in 1..MaxSearchK : \E h \in SearchResults(sk) :
             \E q \in PipeQuestions, k \in 0..MaxTopK : Retrieve(q, k, sk, h)
    \/ Build
    \/ Return

Spec == Init /\ [][Next]_vars

----------------------------------------------------------------------------
(* Properties of build_answer, checked under SpecAnswer *)

IsPrefix(a, b) == Len(a) <= Len(b) /\ SubSeq(b, 1, Len(a)) = a

TopText == Strip(retrieved[1])

NoDelimiter(text) == FirstAt(text, Range(splitters), TRUE) = 0

(* C2: a best_score strictly below DONT_KNOW_THRESHOLD always gives the fixed
   refusal string paired with that best_score, whatever the chunks hold;
   a best_score at or above the threshold never takes the refusal branch. *)
C2_ConfidenceGate ==
    pc \in {"answered", "error"} =>
        /\ best_score < DONT_KNOW_THRESHOLD =>
               answer = REFUSAL /\ branch = "refusal" /\ best_score = BestScore(scores)
        /\ best_score >= DONT_KNOW_THRESHOLD => branch # "refusal"

(* Scenario B: top similarity 0.50 over a chunk that would otherwise yield
   an answer. *)
C2_Witness ==
    /\ pc = "answered"
    /\ scores # <<>> /\ scores[1] = 50
    /\ Len(TopText) >= MIN_ANSWER_LEN
    /\ answer = REFUSAL /\ best_score = 50

(* C4 as stated: a passing gate over a 300-character delimiter-free top text
   returns the first 220 characters of it. *)
C4_Scenario_C_Original ==
    (pc = "answered" /\ branch = "extract" /\ Len(TopText) = 300 /\ NoDelimiter(TopText))
        => answer = Take(TopText, FALLBACK_LEN)

(* C4 amended: a passing gate over a 300-character delimiter-free top text
   returns the whole 300-character trimmed text (the 220-character cut is
   taken only when the candidate is shorter than 18 characters). *)
C4_Scenario_C_Amended ==
    (pc = "answered" /\ branch = "extract" /\ Len(TopText) = 300 /\ NoDelimiter(TopText))
        => answer = TopText /\ Len(answer) = 300

C4_Witness ==
    /\ pc = "answered" /\ branch = "extract"
    /\ Len(TopText) = 300 /\ NoDelimiter(TopText)
    /\ Len(retrieved[1]) > 300

(* The delimiters of the priority list that occur in the text, by priority *)
Present(text) == {i \in 1..Len(splitters) : HasChar(text, splitters[i])}

(* C5: the extraction branch splits on the first delimiter of the priority
   list that occurs anywhere in the trimmed top text: the candidate answer is
   the trimmed text before the first occurrence of that delimiter, and the
   whole trimmed text when no delimiter occurs. *)
C5_PrioritySplit ==
    (pc = "answered" /\ branch = "extract") =>
        LET text == TopText
            here == Present(text)
        IN  IF here = {} THEN ans0 = text
            ELSE LET d == splitters[Min(here)]
                     p == FirstAt(text, {d}, TRUE)
                 IN  /\ ans0 = Strip(SubSeq(text, 1, p - 1))
                     /\ ~HasChar(ans0, d)

(* A lower-priority delimiter occurs before the chosen one and stays inside
   the candidate answer. *)
C5_Witness ==
    /\ pc = "answered" /\ branch = "extract"
    /\ HasChar(TopText, "-")
    /\ HasChar(ans0, ".")
    /\ answer = ans0

(* C9: every answer is the refusal string or a contiguous piece of the
   top-ranked chunk that starts at the first character of its trimmed text. *)
C9_AnswerVerbatim ==
    pc = "answered" =>
        \/ branch = "refusal" /\ answer = REFUSAL
        \/ branch = "extract" /\ retrieved # <<>> /\ IsPrefix(answer, TopText)

(* A proper, non-empty piece of the top chunk, with a second chunk present
   from which nothing is taken. *)
C9_Witness ==
    /\ pc = "answered" /\ branch = "extract"
    /\ Len(retrieved) = 2
    /\ 0 < Len(answer) /\ Len(answer) < Len(TopText)
    /\ ~IsPrefix(answer, retrieved[2])

----------------------------------------------------------------------------
(* Properties of _keywords_ar, checked under SpecKw *)

Tokens == SplitWs(ReSub(question))

FirstIndex(ws, w) == FirstAt(ws, {w}, TRUE)

(* C7: the keyword list has no duplicate, keeps the tokens in the order of
   their first occurrence in the question, and holds exactly the tokens of
   length >= 3 that are not stop-words. *)
C7_KeywordsDistinctOrdered ==
    pc = "keywords" =>
        /\ \A i, j \in 1..Len(kws) : i # j => kws[i] # kws[j]
        /\ \A i \in 1..Len(kws) :
              /\ Len(kws[i]) >= MIN_WORD_LEN
              /\ kws[i] \notin AR_STOP
              /\ kws[i] \in Range(Tokens)
        /\ \A i, j \in 1..Len(kws) :
              i < j => FirstIndex(Tokens, kws[i]) < FirstIndex(Tokens, kws[j])
        /\ \A t \in Range(Tokens) :
              (Len(t) >= MIN_WORD_LEN /\ t \notin AR_STOP) => t \in Range(kws)

(* A question that repeats a word after another one: two keywords, the
   repeated one first. *)
C7_Witness ==
    /\ pc = "keywords"
    /\ Tokens = <<W_bArys, W_frnsA, W_bArys>>
    /\ kws = <<W_bArys, W_frnsA>>

----------------------------------------------------------------------------
(* Properties of the pipeline, checked under Spec *)

Retrieved == pc \in {"retrieved", "answered"}

(* the sort key of a candidate under the keywords of the current question *)
Key(c) == <<kw_score(kws, c.ch), c.score>>

(* C1: chunks and scores have the same length, and that length is
   min(top_k, search_k, corpus size). *)
C1_ResultLength ==
    Retrieved =>
        /\ Len(retrieved) = Len(scores)
        /\ Len(retrieved) = Min({top_k, search_k, Len(chunks)})

(* C3: best_score is scores[0], or 0.0 when scores is empty; with empty
   scores build_answer returns the refusal and raises nothing. *)
C3_BestScore ==
    branch # "none" =>
        /\ scores # <<>> => best_score = scores[1]
        /\ scores = <<>> =>
              best_score = 0 /\ answer = REFUSAL /\ branch = "refusal" /\ pc = "answered"

(* retrieve_chunks with top_k = 0 over a loaded corpus, then build_answer *)
C3_Witness ==
    /\ pc = "answered"
    /\ chunks # <<>> /\ hits # <<>>
    /\ scores = <<>> /\ retrieved = <<>>
    /\ best_score = 0 /\ answer = REFUSAL

(* C6: the returned lists are the first top_k entries of the candidate list
   sorted by descending keyword score, then descending similarity, with
   candidates equal on both keys in their order in the index's result. *)
C6_RerankOrder ==
    Retrieved =>
        /\ Len(ranked) = Len(cands)
        /\ \A p \in 1..(Len(ranked) - 1) : ~KeyLess(Key(ranked[p]), Key(ranked[p + 1]))
        /\ \A c \in Range(cands) :
              SelectSeq(ranked, LAMBDA e : Key(e) = Key(c))
                  = SelectSeq(cands, LAMBDA e : Key(e) = Key(c))
        /\ Len(retrieved) = (IF top_k < Len(ranked) THEN top_k ELSE Len(ranked))
        /\ Len(scores) = Len(retrieved)
        /\ \A i \in 1..Len(retrieved) :
              retrieved[i] = ranked[i].ch /\ scores[i] = ranked[i].score

(* Scenario D: Y (keyword score 0) is listed by the index before X (keyword
   score 2) at the same similarity 0.80, and X is ranked first. *)
C6_Witness ==
    /\ Retrieved
    /\ Len(cands) = 2 /\ top_k = 2
    /\ cands[1].score = 80 /\ cands[2].score = 80
    /\ kw_score(kws, cands[1].ch) = 0 /\ kw_score(kws, cands[2].ch) = 2
    /\ retrieved = <<cands[2].ch, cands[1].ch>>

(* C8: for the question of scenario A the keywords are exactly
   [EASmp, frnsA] and the chunk of scenario A scores 2; no keyword keeps a
   punctuation character. *)
C8_ScenarioA_Keywords ==
    Retrieved =>
        /\ \A i \in 1..Len(kws) : \A j \in 1..Len(kws[i]) : kws[i][j] \in WordChars
        /\ question = ScenarioA_Question =>
              /\ kws = <<W_EASmp, W_frnsA>>
              /\ \A i \in 1..Len(cands) :
                    cands[i].ch = ScenarioA_Chunk => kw_score(kws, cands[i].ch) = 2

----------------------------------------------------------------------------
(* Further properties of build_answer, checked under SpecAnswer *)

(* C12 as stated: a candidate shorter than 18 characters is replaced by
   exactly the first 220 characters of the trimmed top text (the whole text
   when it is shorter); a candidate of 18 or more is returned unchanged. *)
C12_Fallback_Original ==
    (pc = "answered" /\ branch = "extract") =>
        IF Len(ans0) < MIN_ANSWER_LEN THEN answer = Take(TopText, FALLBACK_LEN)
        ELSE answer = ans0

(* C12 amended: a candidate shorter than 18 characters is replaced by the
   first 220 characters of the trimmed top text with the whitespace at their
   end removed (text[:220].strip()), so by at most 220 characters that end in
   a non-blank one; a candidate of 18 or more is returned unchanged. *)
C12_Fallback_Amended ==
    (pc = "answered" /\ branch = "extract") =>
        IF Len(ans0) < MIN_ANSWER_LEN
        THEN LET cut  == Take(TopText, FALLBACK_LEN)
                 last == LastAt(cut, Whitespace, FALSE)
             IN  /\ answer = SubSeq(cut, 1, last)
                 /\ Len(answer) <= FALLBACK_LEN
                 /\ answer # <<>> => answer[Len(answer)] \notin Whitespace
        ELSE answer = ans0

(* The 220th character of the text is a blank: the fallback answer has 219
   characters. *)
C12_Witness ==
    /\ pc = "answered" /\ branch = "extract"
    /\ Len(ans0) < MIN_ANSWER_LEN
    /\ Len(TopText) > FALLBACK_LEN
    /\ TopText[FALLBACK_LEN] \in Whitespace
    /\ Len(answer) = FALLBACK_LEN - 1

----------------------------------------------------------------------------
(* Further properties of the pipeline, checked under Spec *)

Max(S) == CHOOSE x \in S : \A y \in S : y <= x

(* C13: the gate reads the similarity of the first reranked entry only:
   best_score never exceeds the largest returned similarity, and the answer
   is the refusal exactly when the first similarity is below the threshold,
   whatever the other similarities are. *)
C13_GateOnFirstEntry ==
    (pc = "answered" /\ scores # <<>>) =>
        /\ best_score <= Max(Range(scores))
        /\ (branch = "refusal") = (scores[1] < DONT_KNOW_THRESHOLD)
        /\ branch = "refusal" => answer = REFUSAL

(* A keyword-rich chunk of low similarity is ranked first: the answer is the
   refusal although another returned similarity passes the threshold. *)
C13_Witness ==
    /\ pc = "answered" /\ branch = "refusal" /\ answer = REFUSAL
    /\ Len(scores) >= 2
    /\ best_score < DONT_KNOW_THRESHOLD
    /\ scores[2] >= DONT_KNOW_THRESHOLD
    /\ kw_score(kws, retrieved[1]) > kw_score(kws, retrieved[2])

NoKeywordHit == \A i \in 1..Len(cands) : kw_score(kws, cands[i].ch) = 0

Descending(l) == \A i \in 1..(Len(l) - 1) : l[i].score >= l[i + 1].score

(* C14: when no keyword occurs in any candidate and the index listed its
   candidates by descending similarity, the output is the first top_k
   entries of the index's list, in its order, each chunk with its own
   similarity. *)
C14_NoKeywordKeepsIndexOrder ==
    (Retrieved /\ NoKeywordHit /\ Descending(cands)) =>
        /\ ranked = cands
        /\ Len(retrieved) = (IF top_k < Len(hits) THEN top_k ELSE Len(hits))
        /\ Len(scores) = Len(retrieved)
        /\ \A i \in 1..Len(retrieved) :
              /\ retrieved[i] = PyIndex(chunks, hits[i].id)
              /\ scores[i] = hits[i].score

(* An empty question over two different chunks of equal similarity *)
C14_Witness ==
    /\ Retrieved /\ NoKeywordHit
    /\ question = <<>> /\ kws = <<>>
    /\ Len(retrieved) >= 2
    /\ retrieved[1] # retrieved[2] /\ scores[1] = scores[2]
    /\ hits[1].id # hits[2].id

----------------------------------------------------------------------------
(* The concurrent server: ask is a plain def, so the framework runs each
   POST /ask on a worker thread, and calls interleave between any two of
   their reads of the module-level chunks and index. *)

MaxThreads == 2

Threads == 1..MaxThreads

ConcRequests == { W_EASmp \o <<" ">> \o W_frnsA, <<" ">> }

ConcCorpora == { <<>>, <<ScenarioA_Chunk, Chunk_Short>> }

(* the locals of a call that has not begun *)
IdleThread ==
    [pc |-> "idle", question |-> <<>>, hits |-> <<>>, retrieved |-> <<>>,
     scores |-> <<>>, answer |-> <<>>, best_score |-> 0]

(* candidates.sort(reverse=True) on an alias of chunks: sorted in place *)
ChunksAfterRetrieve_inplace(c) == Reverse(c)

(* what retrieve_chunks leaves in chunks: the comprehension of line 71 and
   sorted() of line 78 build new lists, nothing is stored into chunks *)
ChunksAfterRetrieve(c) == c

(* the module is loaded: e5, index and chunks are set, no call has begun *)
InitConc ==
    /\ chunks \in ConcCorpora
    /\ index \in [{Strip(r) : r \in ConcRequests} -> SearchResults(SEARCH_K)]
    /\ inflight = [t \in Threads |-> IdleThread]
    /\ pc = "idle"
    /\ question = <<>>
    /\ top_k = TOP_K
    /\ search_k = SEARCH_K
    /\ kws = <<>>
    /\ hits = <<>>
    /\ cands = <<>>
    /\ ranked = <<>>
    /\ retrieved = <<>>
    /\ scores = <<>>
    /\ ans0 = <<>>
    /\ answer = <<>>
    /\ best_score = 0
    /\ branch = "none"

(* question = (req.question or "").strip() *)
Receive(t, req) ==
    /\ inflight[t].pc = "idle"
    /\ inflight' = [inflight EXCEPT ![t] =
                       [IdleThread EXCEPT !.pc = "asked", !.question = Strip(req)]]
    /\ UNCHANGED <<chunks, index, callvars>>

(* q_emb = e5.encode(...); scores, idxs = index.search(q_emb, search_k) *)
Search(t) ==
    /\ inflight[t].pc = "asked"
    /\ inflight' = [inflight EXCEPT ![t].pc = "searched",
                                    ![t].hits = index[inflight[t].question]]
    /\ UNCHANGED <<chunks, index, callvars>>

(* the rest of retrieve_chunks: candidates from chunks, rerank, top_k *)
Rerank(t) ==
    /\ inflight[t].pc = "searched"
    /\ \E r \in {retrieve_chunks(inflight[t].question, TOP_K, SEARCH_K,
                                 inflight[t].hits)} :
         inflight' = [inflight EXCEPT
                         ![t].pc = IF r.error THEN "error" ELSE "retrieved",
                         ![t].retrieved = r.retrieved,
                         ![t].scores = r.scores]
    /\ chunks' = ChunksAfterRetrieve(chunks)
    /\ UNCHANGED <<index, callvars>>

(* answer, best_score = build_answer(question, retrieved, scores) *)
Answer(t) ==
    /\ inflight[t].pc = "retrieved"
    /\ \E b \in {build_answer(inflight[t].question, inflight[t].retrieved,
                              inflight[t].scores)} :
         inflight' = [inflight EXCEPT
                         ![t].pc = IF b.branch = "IndexError" THEN "error"
                                   ELSE "answered",
                         ![t].answer = b.answer,
                         ![t].best_score = b.best_score]
    /\ UNCHANGED <<chunks, index, callvars>>

(* return JSONResponse(...), or the exception leaves: the locals are gone *)
Respond(t) ==
    /\ inflight[t].pc \in {"answered", "error"}
    /\ inflight' = [inflight EXCEPT ![t] = IdleThread]
    /\ UNCHANGED <<chunks, index, callvars>>

NextConc ==
    \E t \in Threads :
        \/ \E req \in ConcRequests : Receive(t, req)
        \/ Search(t)
        \/ Rerank(t)
        \/ Answer(t)
        \/ Respond(t)

SpecConc == InitConc /\ [][NextConc]_vars

(* the locals a call on question q ends with when it runs with no other call
   before or beside it *)
AskAlone(q) ==
    LET h == index[q]
        r == retrieve_chunks(q, TOP_K, SEARCH_K, h)
        b == build_answer(q, r.retrieved, r.scores)
    IN  IF r.error
        THEN [IdleThread EXCEPT !.pc = "error", !.question = q, !.hits = h]
        ELSE [pc |-> IF b.branch = "IndexError" THEN "error" ELSE "answered",
              question |-> q, hits |-> h, retrieved |-> r.retrieved,
              scores |-> r.scores, answer |-> b.answer,
              best_score |-> b.best_score]

C11_SameAsAlone ==
    \A t \in Threads :
        inflight[t].pc \in {"answered", "error"} =>
            inflight[t] = AskAlone(inflight[t].question)

(* C11: no step of any interleaving of calls changes chunks or index, and
   every call ends with the response it would give if it ran alone on the
   loaded chunks and index, whatever the other threads did meanwhile or
   before. *)
C11_SharedReadOnly ==
    /\ []C11_SameAsAlone
    /\ [][chunks' = chunks /\ index' = index]_vars

(* Two calls overlap: one holds its answer while the other, on another
   question, is between its index search and its read of chunks. *)
C11_Witness ==
    /\ chunks # <<>>
    /\ inflight[1].pc = "answered" /\ inflight[1].answer # <<>>
    /\ inflight[2].pc = "searched"
    /\ inflight[2].question # inflight[1].question

====
